---- MODULE Spec2Model ----
(***************************************************************************)
(* Synchronization contract of the cartography connectors                  *)
(*   cartography/intel/gcp/storage.py   (GCP storage buckets)              *)
(*   cartography/intel/okta/__init__.py (Okta ingestion orchestrator)      *)
(* Every node and edge is stamped with an update tag on write; a cleanup    *)
(* job deletes what was not stamped with the current tag.                   *)
(***************************************************************************)
EXTENDS Integers, Sequences, FiniteSets, TLC

\* ------------------------------------------------------------------ bounds
\* Largest sync tag (config.update_tag) a run is started with: the tag is the
\* time at which the run starts, so this also bounds the number of runs.
MaxTag == 2

\* ---------------------------------------------------------------- universe
Null == "null"

Projects == {"p1", "p2"}
Buckets == {"b1", "b2", "b3"}
\* The order in which buckets.list returns the buckets of a project.
BucketOrder == <<"b1", "b2", "b3">>
\* The project a bucket belongs to upstream (its projectNumber).
ProjectOf(b) == IF b = "b3" THEN "p2" ELSE "p1"

\* One orchestrator process; a second one exists only in SpecOverlap.
Procs == {1, 2}

\* A Python dict is a function on its keys; {} is the function on no key.
EmptyDict == [k \in {} |-> Null]

\* dict.get(k, default)
Get(d, k, default) == IF k \in DOMAIN d THEN d[k] ELSE default

\* list(dict.items()): the (key, value) pairs, in key order.
RECURSIVE ItemsOf(_, _)
ItemsOf(d, keys) ==
    IF keys = {} THEN <<>>
    ELSE LET k == CHOOSE x \in keys : TRUE
         IN <<<<k, d[k]>>>> \o ItemsOf(d, keys \ {k})

Items(d) == ItemsOf(d, DOMAIN d)

\* The shapes in which the storage API can return one bucket: only the
\* required fields, every optional field, or optional objects left empty.
Variants == {1, 2, 3}

\* The shapes each bucket is returned in: b1's optional fields come and go
\* between listings, the other buckets keep their shape.
VariantsOf(b) == IF b = "b1" THEN {1, 2} ELSE IF b = "b2" THEN {3} ELSE {2}

RawItem(b, v) ==
    CASE v = 1 -> [id |-> b, projectNumber |-> ProjectOf(b)]
      [] v = 2 -> [id |-> b, projectNumber |-> ProjectOf(b),
                   storageClass |-> "STANDARD",
                   labels |-> [env |-> "prod"],
                   versioning |-> [enabled |-> "true"]]
      [] OTHER -> [id |-> b, projectNumber |-> ProjectOf(b),
                   storageClass |-> "NEARLINE",
                   labels |-> EmptyDict,
                   versioning |-> EmptyDict]

\* HttpError reasons of the storage API (compute._get_error_reason).
HttpReasons == {"invalid", "forbidden", "notFound", "rateLimitExceeded"}

VARIABLES
    nodes,       \* the graph's nodes
    edges,       \* the graph's relationships
    clock,       \* the time: the next run's tag, and what timestamp() returns
    upstream,    \* the buckets that exist at the provider
    run,         \* per process, the locals of the sync it is executing
    hist,        \* per process, what its current run has done so far
    policy       \* the latest answer of get_gcp_bucket_iam_policy

vars == <<nodes, edges, clock, upstream, run, hist, policy>>

\* ------------------------------------------------------------------- graph
Graph(ns, es) == [nodes |-> ns, edges |-> es]

\* The smallest identifier no element of s uses.
NewId(s) == CHOOSE i \in 1..(Cardinality(s) + 1) : \A x \in s : x.id # i

Matching(ns, label, key) == {n \in ns : n.label = label /\ n.key = key}

\* CREATE instead of MERGE: a new node whether or not the key exists.
MergeNode_AlwaysCreate(ns, label, key, now) ==
    ns \cup {[id |-> NewId(ns), label |-> label, key |-> key,
              firstseen |-> now, lastupdated |-> 0, props |-> EmptyDict]}

\* MERGE (n:label{key}) ON CREATE SET n.firstseen = timestamp()
MergeNode(ns, label, key, now) ==
    IF Matching(ns, label, key) # {} THEN ns
    ELSE ns \cup {[id |-> NewId(ns), label |-> label, key |-> key,
                   firstseen |-> now, lastupdated |-> 0, props |-> EmptyDict]}

\* SET n.<prop> = ... on every node the MERGE bound.
SetProps(ns, label, key, props) ==
    {IF n.label = label /\ n.key = key
        THEN [n EXCEPT !.props = [k \in DOMAIN n.props \cup DOMAIN props |->
                                     IF k \in DOMAIN props THEN props[k] ELSE n.props[k]]]
        ELSE n : n \in ns}

\* SET n.lastupdated = tag on every node the MERGE bound.
SetLastUpdated(ns, label, key, tag) ==
    {IF n.label = label /\ n.key = key THEN [n EXCEPT !.lastupdated = tag] ELSE n : n \in ns}

EdgesBetween(es, type, srcs, dsts) ==
    {e \in es : e.type = type /\ e.src \in srcs /\ e.dst \in dsts}

\* MERGE (p)-[r:type]->(n) ON CREATE SET r.firstseen = timestamp()
\* SET r.lastupdated = tag, for every pair of bound nodes.
RECURSIVE MergeEdges(_, _, _, _, _)
MergeEdges(es, type, pairs, tag, now) ==
    IF pairs = {} THEN es
    ELSE LET pr == CHOOSE x \in pairs : TRUE
             have == EdgesBetween(es, type, {pr[1]}, {pr[2]})
             merged == IF have # {}
                       THEN {IF e \in have THEN [e EXCEPT !.lastupdated = tag] ELSE e : e \in es}
                       ELSE es \cup {[id |-> NewId(es), type |-> type, src |-> pr[1],
                                      dst |-> pr[2], firstseen |-> now, lastupdated |-> tag]}
         IN MergeEdges(merged, type, pairs \ {pr}, tag, now)

Ids(ns) == {n.id : n \in ns}

\* ------------------------------------------------- gcp/storage.py: transform
\* transform_gcp_buckets: one flat record per raw item.
TransformBucket(b) ==
    [etag |-> Get(b, "etag", Null),
     iam_config_bucket_policy_only |->
         Get(Get(Get(b, "iamConfiguration", EmptyDict), "bucketPolicyOnly", EmptyDict),
             "enabled", Null),
     id |-> b.id,
     labels |-> Items(Get(b, "labels", EmptyDict)),
     owner_entity |-> Get(Get(b, "owner", EmptyDict), "entity", Null),
     owner_entity_id |-> Get(Get(b, "owner", EmptyDict), "entityId", Null),
     kind |-> Get(b, "kind", Null),
     location |-> Get(b, "location", Null),
     location_type |-> Get(b, "locationType", Null),
     meta_generation |-> Get(b, "metageneration", Null),
     project_number |-> b.projectNumber,
     self_link |-> Get(b, "selfLink", Null),
     storage_class |-> Get(b, "storageClass", Null),
     time_created |-> Get(b, "timeCreated", Null),
     updated |-> Get(b, "updated", Null),
     versioning_enabled |-> Get(Get(b, "versioning", EmptyDict), "enabled", Null),
     default_event_based_hold |-> Get(b, "defaultEventBasedHold", Null),
     retention_period |-> Get(Get(b, "retentionPolicy", EmptyDict), "retentionPeriod", Null),
     default_kms_key_name |-> Get(Get(b, "encryption", EmptyDict), "defaultKmsKeyName", Null),
     log_bucket |-> Get(Get(b, "logging", EmptyDict), "logBucket", Null),
     requester_pays |-> Get(Get(b, "billing", EmptyDict), "requesterPays", Null)]

\* A transformer that leaves out the items that lack an optional field.
transform_gcp_buckets_SkipsIncomplete(bucket_res) ==
    LET items == SelectSeq(Get(bucket_res, "items", <<>>),
                           LAMBDA b : "storageClass" \in DOMAIN b)
    IN [i \in 1..Len(items) |-> TransformBucket(items[i])]

transform_gcp_buckets(bucket_res) ==
    LET items == Get(bucket_res, "items", <<>>)
    IN [i \in 1..Len(items) |-> TransformBucket(items[i])]

\* ---------------------------------------- raw responses of buckets.list
\* Longest list of items in a raw response handed to the transformer alone.
MaxItems == 2

\* A bucket resource with every field the transformer reads.
FullItem(b) ==
    [id |-> b, projectNumber |-> ProjectOf(b),
     etag |-> "CAE=", kind |-> "storage#bucket", location |-> "US",
     locationType |-> "multi-region", metageneration |-> "1",
     selfLink |-> "https://www.googleapis.com/storage/v1/b/" \o b,
     storageClass |-> "STANDARD", timeCreated |-> "2019-01-01",
     updated |-> "2019-02-02", defaultEventBasedHold |-> "false",
     labels |-> [env |-> "prod"],
     iamConfiguration |-> [bucketPolicyOnly |-> [enabled |-> "true"]],
     owner |-> [entity |-> "project-owners", entityId |-> "00b4"],
     versioning |-> [enabled |-> "true"],
     retentionPolicy |-> [retentionPeriod |-> "86400"],
     encryption |-> [defaultKmsKeyName |-> "key1"],
     logging |-> [logBucket |-> "logs"],
     billing |-> [requesterPays |-> "false"]]

\* The fields the API always returns, and the ones it may leave out.
RequiredKeys == {"id", "projectNumber"}
OptionalKeys == DOMAIN FullItem("b1") \ RequiredKeys

Restrict(d, keys) == [k \in DOMAIN d \cap keys |-> d[k]]

\* A bucket resource whose optional objects are there, but hollow.
HollowItems(b) ==
    {[FullItem(b) EXCEPT !.iamConfiguration = EmptyDict],
     [FullItem(b) EXCEPT !.iamConfiguration = [bucketPolicyOnly |-> EmptyDict]],
     [FullItem(b) EXCEPT !.owner = [entity |-> "project-owners"]],
     [FullItem(b) EXCEPT !.owner = EmptyDict, !.versioning = EmptyDict,
                         !.retentionPolicy = EmptyDict, !.encryption = EmptyDict,
                         !.logging = EmptyDict, !.billing = EmptyDict,
                         !.labels = EmptyDict]}

\* The raw items the transformer is tried on: for b1 the full resource, the
\* bare one, the ones that lack or have a single optional field and the
\* hollow ones; for the other buckets the full and the bare one.
RawItems ==
    {FullItem(b) : b \in Buckets}
    \cup {Restrict(FullItem(b), RequiredKeys) : b \in Buckets}
    \cup {Restrict(FullItem("b1"), DOMAIN FullItem("b1") \ {k}) : k \in OptionalKeys}
    \cup {Restrict(FullItem("b1"), RequiredKeys \cup {k}) : k \in OptionalKeys}
    \cup HollowItems("b1")

\* The responses get_gcp_buckets can return: {} after a triaged error, a
\* listing without items, and a listing of up to MaxItems items.
RawResponses ==
    {EmptyDict, [kind |-> "storage#buckets"]}
    \cup {[kind |-> "storage#buckets", items |-> items] :
              items \in UNION {[1..n -> RawItems] : n \in 0..MaxItems}}

\* ------------------------------------------------------ gcp/storage.py: load
\* A statement that stamps lastupdated only ON CREATE, not on every merge.
LoadBucketQuery_StampOnCreate(g, bucket, tag, now) ==
    LET fresh == Matching(g.nodes, "GCPBucket", bucket.id) = {}
        n1 == MergeNode(g.nodes, "GCPProject", bucket.project_number, now)
        n2 == SetLastUpdated(n1, "GCPProject", bucket.project_number, tag)
        n3 == MergeNode(n2, "GCPBucket", bucket.id, now)
        n4 == SetProps(n3, "GCPBucket", bucket.id,
                       [bucket_id |-> bucket.id,
                        project_number |-> bucket.project_number,
                        labels |-> bucket.labels,
                        storage_class |-> bucket.storage_class,
                        versioning_enabled |-> bucket.versioning_enabled])
        n5 == IF fresh THEN SetLastUpdated(n4, "GCPBucket", bucket.id, tag) ELSE n4
        ps == Ids(Matching(n5, "GCPProject", bucket.project_number))
        bs == Ids(Matching(n5, "GCPBucket", bucket.id))
    IN Graph(n5, MergeEdges(g.edges, "RESOURCE", ps \X bs, tag, now))

\* A statement that sets firstseen on every merge, not only ON CREATE.
LoadBucketQuery_ResetFirstseen(g, bucket, tag, now) ==
    LET g1 == LoadBucketQuery_StampOnCreate(g, bucket, tag, now)
    IN Graph({IF n.label = "GCPBucket" /\ n.key = bucket.id
                 THEN [n EXCEPT !.firstseen = now, !.lastupdated = tag] ELSE n
              : n \in g1.nodes},
             g1.edges)

\* The Cypher statement load_gcp_buckets runs for one bucket.
LoadBucketQuery(g, bucket, tag, now) ==
    LET n1 == MergeNode(g.nodes, "GCPProject", bucket.project_number, now)
        n2 == SetLastUpdated(n1, "GCPProject", bucket.project_number, tag)
        n3 == MergeNode(n2, "GCPBucket", bucket.id, now)
        created == Matching(n2, "GCPBucket", bucket.id) = {}
        onCreate == IF created THEN [bucket_id |-> bucket.id] ELSE EmptyDict
        n4 == SetProps(n3, "GCPBucket", bucket.id, onCreate)
        n5 == SetLastUpdated(
                  SetProps(n4, "GCPBucket", bucket.id,
                           [project_number |-> bucket.project_number,
                            labels |-> bucket.labels,
                            storage_class |-> bucket.storage_class,
                            versioning_enabled |-> bucket.versioning_enabled]),
                  "GCPBucket", bucket.id, tag)
        ps == Ids(Matching(n5, "GCPProject", bucket.project_number))
        bs == Ids(Matching(n5, "GCPBucket", bucket.id))
    IN Graph(n5, MergeEdges(g.edges, "RESOURCE", ps \X bs, tag, now))

\* load_gcp_buckets: the statement once per bucket, in list order.
RECURSIVE load_gcp_buckets(_, _, _, _)
load_gcp_buckets(g, buckets, tag, now) ==
    IF buckets = <<>> THEN g
    ELSE load_gcp_buckets(LoadBucketQuery(g, Head(buckets), tag, now), Tail(buckets), tag, now)

\* ------------------------------------------------------ gcp/storage.py: fetch
\* How a call ends: it returns a value, returns None, or raises.
Returns(v) == [raised |-> "none", is_none |-> FALSE, value |-> v]
ReturnsNone == [raised |-> "none", is_none |-> TRUE, value |-> EmptyDict]
Raises(reason) == [raised |-> reason, is_none |-> FALSE, value |-> EmptyDict]

\* What the storage API answers to buckets.list(project): the buckets that
\* exist upstream, or an HttpError.
ListResponses(up, p) ==
    LET mine == SelectSeq(BucketOrder, LAMBDA b : b \in up /\ ProjectOf(b) = p)
    IN {[ok |-> TRUE, reason |-> "none",
         res |-> IF mine = <<>>
                 THEN [kind |-> "storage#buckets"]
                 ELSE [kind |-> "storage#buckets",
                       items |-> [i \in 1..Len(mine) |-> RawItem(mine[i], vs[mine[i]])]]]
          : vs \in {f \in [{b \in up : ProjectOf(b) = p} -> Variants] :
                         \A b \in DOMAIN f : f[b] \in VariantsOf(b)}}
       \cup {[ok |-> FALSE, reason |-> rs, res |-> EmptyDict] : rs \in HttpReasons}

\* A get_gcp_buckets that triages 'invalid' only and re-raises 'forbidden'.
get_gcp_buckets_RaisesForbidden(api) ==
    IF api.ok THEN Returns(api.res)
    ELSE IF api.reason = "invalid" THEN Returns(EmptyDict)
    ELSE Raises(api.reason)

\* A get_gcp_buckets whose except clause swallows every HttpError.
get_gcp_buckets_SwallowsAll(api) ==
    IF api.ok THEN Returns(api.res) ELSE Returns(EmptyDict)

\* get_gcp_buckets: the response, {} for an 'invalid' or 'forbidden' error,
\* and the error re-raised otherwise.
get_gcp_buckets(api) ==
    IF api.ok THEN Returns(api.res)
    ELSE IF api.reason = "invalid" THEN Returns(EmptyDict)
    ELSE IF api.reason = "forbidden" THEN Returns(EmptyDict)
    ELSE Raises(api.reason)

\* What the storage API answers to buckets.getIamPolicy(bucket).
PolicyResponses(b) ==
    {[ok |-> TRUE, reason |-> "none",
      res |-> [kind |-> "storage#policy", resourceId |-> b]]}
       \cup {[ok |-> FALSE, reason |-> rs, res |-> EmptyDict] : rs \in HttpReasons}

\* get_gcp_bucket_iam_policy: the policy, None for a 'notFound' or
\* 'forbidden' error, and the error re-raised otherwise.
get_gcp_bucket_iam_policy(api) ==
    IF api.ok THEN Returns(api.res)
    ELSE IF api.reason = "notFound" THEN ReturnsNone
    ELSE IF api.reason = "forbidden" THEN ReturnsNone
    ELSE Raises(api.reason)

\* ------------------------------------------------------------- cleanup jobs
OktaResourceLabels ==
    {"OktaUser", "OktaGroup", "OktaApplication", "OktaUserFactor",
     "OktaTrustedOrigin", "OktaAdministrationRole"}

\* The named deletion jobs: the parent the job is scoped to, the parameter
\* holding the parent's key, and the labels it deletes.
CleanupJobs(job) ==
    IF job = "gcp_storage_bucket_cleanup.json"
    THEN [parent |-> "GCPProject", scope |-> "PROJECT_ID", targets |-> {"GCPBucket"}]
    ELSE [parent |-> "OktaOrganization", scope |-> "OKTA_ORG_ID",
          targets |-> OktaResourceLabels]

\* The node is of one of the job's target labels and is attached to the
\* parent named by the job parameters.
InScopeNode(g, job, params, n) ==
    /\ n.label \in CleanupJobs(job).targets
    /\ \E e \in g.edges : /\ e.dst = n.id
                          /\ \E p \in g.nodes : /\ p.id = e.src
                                                /\ p.label = CleanupJobs(job).parent
                                                /\ p.key = params[CleanupJobs(job).scope]

InScopeNodes(g, job, params) == {n \in g.nodes : InScopeNode(g, job, params, n)}

\* The edge goes from the parent named by the job parameters to a node of
\* one of the job's target labels.
InScopeEdge(g, job, params, e) ==
    /\ \E p \in g.nodes : /\ p.id = e.src
                          /\ p.label = CleanupJobs(job).parent
                          /\ p.key = params[CleanupJobs(job).scope]
    /\ \E n \in g.nodes : n.id = e.dst /\ n.label \in CleanupJobs(job).targets

InScopeEdges(g, job, params) == {e \in g.edges : InScopeEdge(g, job, params, e)}

\* A job that deletes every node it matches, whatever its lastupdated.
StaleNode_IgnoresTag(g, job, params, n) == InScopeNode(g, job, params, n)

StaleNode(g, job, params, n) ==
    InScopeNode(g, job, params, n) /\ n.lastupdated # params.UPDATE_TAG

\* run_cleanup_job: DETACH DELETE the in-scope nodes whose lastupdated is not
\* UPDATE_TAG, then DELETE the in-scope edges whose lastupdated is not.
run_cleanup_job(job, g, params) ==
    Graph({n \in g.nodes : ~StaleNode(g, job, params, n)},
          {e \in g.edges :
              /\ \A n \in g.nodes : n.id \in {e.src, e.dst} => ~StaleNode(g, job, params, n)
              /\ ~(InScopeEdge(g, job, params, e) /\ e.lastupdated # params.UPDATE_TAG)})

\* A cleanup_gcp_buckets that returns without running the job.
cleanup_gcp_buckets_NoJob(g, common_job_parameters) == g

\* cleanup_gcp_buckets
cleanup_gcp_buckets(g, common_job_parameters) ==
    run_cleanup_job("gcp_storage_bucket_cleanup.json", g, common_job_parameters)


\* ------------------------------------------------------------------- state
IdleRun ==
    [kind |-> "none", pc |-> "idle", scope |-> Null, api_key |-> Null, tag |-> 0,
     cjp |-> EmptyDict, storage_res |-> EmptyDict, bucket_list |-> <<>>,
     i |-> 0, error |-> "none"]

NoKeys == [nodes |-> {}, edges |-> {}]

\* What is recorded of a run: the stages it attempted, the stage that raised
\* and the API error behind it, the tags its writes and its cleanup used, what
\* its writes touched, the graph its cleanup found, what its cleanup took
\* from it and from a concurrent run, and whether another run was in flight
\* on its scope.
NoHist ==
    [attempted |-> <<>>, failed |-> "none", api_error |-> "none",
     writeTags |-> {}, cleanupTags |-> {}, cleanups |-> 0,
     written |-> NoKeys, before |-> Graph({}, {}),
     lostOwn |-> NoKeys, clobbered |-> {}, overlapped |-> FALSE,
     reloads |-> 0, loaded |-> Graph({}, {})]

NoCall == [api |-> "none", result |-> Returns(EmptyDict)]

Init ==
    /\ nodes = {}
    /\ edges = {}
    /\ clock = 1
    /\ upstream = Buckets
    /\ run = [r \in Procs |-> IdleRun]
    /\ hist = [r \in Procs |-> NoHist]
    /\ policy = NoCall

Stopped(r) == run[r].pc \in {"idle", "done", "raised", "returned"}

NodeKeys(ns) == {<<n.label, n.key>> : n \in ns}

EdgeKeys(g, es) ==
    {[type |-> e.type, src |-> NodeKeys({n \in g.nodes : n.id = e.src}),
      dst |-> NodeKeys({n \in g.nodes : n.id = e.dst})] : e \in es}

KeysOf(g) == [nodes |-> NodeKeys(g.nodes), edges |-> EdgeKeys(g, g.edges)]

\* The nodes and edges a write created or changed, and the tags it left on them.
Written(g, g2) ==
    [nodes |-> NodeKeys(g2.nodes \ g.nodes), edges |-> EdgeKeys(g2, g2.edges \ g.edges)]

WrittenTags(g, g2) ==
    {n.lastupdated : n \in g2.nodes \ g.nodes} \cup {e.lastupdated : e \in g2.edges \ g.edges}

AfterWrite(h, g, g2) ==
    [h EXCEPT !.writeTags = @ \cup WrittenTags(g, g2),
              !.written = [nodes |-> @.nodes \cup Written(g, g2).nodes,
                           edges |-> @.edges \cup Written(g, g2).edges]]

\* The records of run q that the cleanup of another run has just removed
\* while q is in flight: q stamped them with its tag, and (for a bucket) the
\* provider still has them.
Clobbered(r, g, g2) ==
    {k \in NodeKeys(g.nodes \ g2.nodes) :
        /\ \E q \in Procs \ {r} :
              /\ ~Stopped(q)
              /\ k \in hist[q].written.nodes
              /\ \E n \in g.nodes \ g2.nodes :
                    <<n.label, n.key>> = k /\ n.lastupdated = run[q].tag
        /\ (k[1] = "GCPBucket" => k[2] \in upstream)}

AfterCleanup(r, h, g, g2, params) ==
    [h EXCEPT !.attempted = Append(@, "cleanup"),
              !.cleanupTags = @ \cup {params.UPDATE_TAG},
              !.cleanups = @ + 1,
              !.before = g,
              !.lostOwn = [nodes |-> h.written.nodes \ KeysOf(g2).nodes,
                           edges |-> h.written.edges \ KeysOf(g2).edges],
              !.clobbered = Clobbered(r, g, g2)]

\* The records of the runs when process r starts a run on a scope: the runs
\* in flight on that scope are no longer alone on it.
StartHist(r, scope) ==
    LET others == {q \in Procs \ {r} : ~Stopped(q) /\ run[q].scope = scope}
    IN [q \in Procs |->
          IF q = r THEN [NoHist EXCEPT !.overlapped = (others # {})]
          ELSE IF q \in others THEN [hist[q] EXCEPT !.overlapped = TRUE]
          ELSE hist[q]]

\* In the actions below the graph a statement leaves is bound once, as the
\* element of a one-element set, and the primed variables are read off it.

\* ------------------------------------------------ environment of the program
\* A bucket is created or deleted at the provider. The program sees the
\* provider's state only when it lists a project's buckets, so only the
\* changes made just before a listing are told apart.
UpstreamChange(b) ==
    /\ \E r \in Procs : run[r].kind = "gcp" /\ run[r].pc = "get" /\ run[r].scope = ProjectOf(b)
    /\ upstream' = IF b \in upstream THEN upstream \ {b} ELSE upstream \cup {b}
    /\ UNCHANGED <<nodes, edges, clock, run, hist, policy>>

Environment ==
    \E b \in Buckets : UpstreamChange(b)

\* ------------------------------------------- gcp/storage.py: sync_gcp_buckets
\* The arguments the GCP orchestrator calls sync_gcp_buckets with for one
\* project: the run's tag, as gcp_update_tag and in common_job_parameters.
SyncGcpArguments(p, tag) ==
    [project_id |-> p, gcp_update_tag |-> tag,
     common_job_parameters |-> [UPDATE_TAG |-> tag, PROJECT_ID |-> p]]

\* A run of sync_gcp_buckets starts; its tag is the time it starts at.
StartGcp(r, p) ==
    /\ Stopped(r)
    /\ clock <= MaxTag
    /\ clock' = clock + 1
    /\ LET args == SyncGcpArguments(p, clock)
       IN run' = [run EXCEPT ![r] =
                    [IdleRun EXCEPT !.kind = "gcp", !.pc = "get", !.scope = args.project_id,
                                    !.tag = args.gcp_update_tag,
                                    !.cjp = args.common_job_parameters]]
    /\ hist' = StartHist(r, p)
    /\ UNCHANGED <<nodes, edges, upstream, policy>>

\* storage_res = get_gcp_buckets(storage, project_id)
\* bucket_list = transform_gcp_buckets(storage_res)
GetGcpBuckets(r) ==
    /\ run[r].kind = "gcp" /\ run[r].pc = "get"
    /\ \E api \in ListResponses(upstream, run[r].scope) :
         LET got == get_gcp_buckets(api)
             bl == transform_gcp_buckets(got.value)
         IN /\ run' = [run EXCEPT ![r] =
                         IF got.raised # "none"
                         THEN [@ EXCEPT !.pc = "raised", !.error = got.raised]
                         ELSE [@ EXCEPT !.pc = IF bl = <<>> THEN "cleanup" ELSE "load",
                                        !.storage_res = got.value,
                                        !.bucket_list = bl, !.i = 1]]
            /\ hist' = [hist EXCEPT ![r].api_error = api.reason,
                                    ![r].failed = IF got.raised # "none" THEN "get" ELSE "none",
                                    ![r].attempted = IF got.raised # "none" THEN <<"get">>
                                                     ELSE <<"get", "transform", "load">>]
    /\ UNCHANGED <<nodes, edges, clock, upstream, policy>>

\* load_gcp_buckets: one neo4j_session.run of the loop.
LoadGcpBucket(r) ==
    /\ run[r].kind = "gcp" /\ run[r].pc = "load"
    /\ \E g \in {Graph(nodes, edges)} :
       \E g2 \in {LoadBucketQuery(g, run[r].bucket_list[run[r].i], run[r].tag, clock)} :
          /\ nodes' = g2.nodes
          /\ edges' = g2.edges
          /\ hist' = [hist EXCEPT ![r] = AfterWrite(@, g, g2)]
    /\ run' = [run EXCEPT ![r].i = @ + 1,
                          ![r].pc = IF run[r].i = Len(run[r].bucket_list)
                                    THEN "cleanup" ELSE "load"]
    /\ UNCHANGED <<clock, upstream, policy>>

\* A failing load that rolls back: it takes out what carries the run's tag.
LoadGcpFails_RollsBack(r) ==
    /\ run[r].kind = "gcp" /\ run[r].pc = "load"
    /\ run' = [run EXCEPT ![r].pc = "raised", ![r].error = "ServiceUnavailable"]
    /\ hist' = [hist EXCEPT ![r].failed = "load"]
    /\ nodes' = {n \in nodes : n.lastupdated # run[r].tag}
    /\ edges' = {e \in edges : e.lastupdated # run[r].tag}
    /\ UNCHANGED <<clock, upstream, policy>>

\* load_gcp_buckets: neo4j_session.run raises (the graph write fails).
LoadGcpFails(r) ==
    /\ run[r].kind = "gcp" /\ run[r].pc = "load"
    /\ run' = [run EXCEPT ![r].pc = "raised", ![r].error = "ServiceUnavailable"]
    /\ hist' = [hist EXCEPT ![r].failed = "load"]
    /\ UNCHANGED <<nodes, edges, clock, upstream, policy>>

\* cleanup_gcp_buckets(neo4j_session, common_job_parameters)
CleanupGcp(r) ==
    /\ run[r].kind = "gcp" /\ run[r].pc = "cleanup"
    /\ \E g \in {Graph(nodes, edges)} :
       \E g2 \in {cleanup_gcp_buckets(g, run[r].cjp)} :
          /\ nodes' = g2.nodes
          /\ edges' = g2.edges
          /\ hist' = [hist EXCEPT ![r] = AfterCleanup(r, @, g, g2, run[r].cjp)]
    /\ run' = [run EXCEPT ![r].pc = "done"]
    /\ UNCHANGED <<clock, upstream, policy>>

sync_gcp_buckets(r) ==
    \/ GetGcpBuckets(r)
    \/ LoadGcpBucket(r)
    \/ LoadGcpFails(r)
    \/ CleanupGcp(r)

\* load_gcp_buckets is invoked once more, later, with the records and the tag
\* of the load that has just finished.
ReloadGcpBuckets(r) ==
    /\ run[r].kind = "gcp" /\ run[r].pc = "cleanup"
    /\ hist[r].reloads = 0
    /\ clock <= MaxTag + 1
    /\ clock' = clock + 1
    /\ \E g \in {Graph(nodes, edges)} :
       \E g2 \in {load_gcp_buckets(g, run[r].bucket_list, run[r].tag, clock + 1)} :
          /\ nodes' = g2.nodes
          /\ edges' = g2.edges
          /\ hist' = [hist EXCEPT ![r].reloads = @ + 1, ![r].loaded = g]
    /\ UNCHANGED <<upstream, run, policy>>

\* The transformer called on its own: a run holds a raw response.
InitTransform ==
    /\ nodes = {}
    /\ edges = {}
    /\ clock = 2
    /\ upstream = Buckets
    /\ \E res \in RawResponses :
          run = [r \in Procs |->
                   IF r = 1
                   THEN [IdleRun EXCEPT !.kind = "gcp", !.pc = "transform", !.scope = "p1",
                                        !.tag = 1,
                                        !.cjp = SyncGcpArguments("p1", 1).common_job_parameters,
                                        !.storage_res = res]
                   ELSE IdleRun]
    /\ hist = [r \in Procs |-> NoHist]
    /\ policy = NoCall

\* bucket_list = transform_gcp_buckets(storage_res)
TransformGcpBuckets(r) ==
    /\ run[r].kind = "gcp" /\ run[r].pc = "transform"
    /\ run' = [run EXCEPT ![r].bucket_list = transform_gcp_buckets(run[r].storage_res),
                          ![r].pc = "transformed"]
    /\ UNCHANGED <<nodes, edges, clock, upstream, hist, policy>>

\* get_gcp_bucket_iam_policy(storage, bucket) is called for a bucket.
GetBucketIamPolicy(b) ==
    /\ \E api \in PolicyResponses(b) :
         policy' = [api |-> IF api.ok THEN "ok" ELSE api.reason,
                    result |-> get_gcp_bucket_iam_policy(api)]
    /\ UNCHANGED <<nodes, edges, clock, upstream, run, hist>>

\* ------------------------------------------------ okta/__init__.py: the stages
Orgs == {"o1", "o2"}
\* config.okta_api_key: the empty string, None (not configured), or a token.
ApiKeys == {"", Null, "token"}

\* A credentials test that takes only None for missing.
NoCredentials_OnlyNone(config) == config.okta_api_key = Null

\* not config.okta_api_key
NoCredentials(config) == config.okta_api_key \in {"", Null}

\* The stages of start_okta_ingestion, in the order of its statements.
OktaStages ==
    <<"organization", "users", "groups", "applications", "factors", "origins",
      "awssaml", "roles">>

StageIndex(st) == CHOOSE i \in 1..Len(OktaStages) : OktaStages[i] = st

\* A sequence of calls in which the cleanup comes before the roles stage.
NextStage_CleanupBeforeRoles(st) ==
    IF st = "awssaml" THEN "cleanup"
    ELSE IF StageIndex(st) = Len(OktaStages) THEN "cleanup"
    ELSE OktaStages[StageIndex(st) + 1]

\* A sequence of calls from which the AWS SAML stage is missing.
NextStage_SkipsAwsSaml(st) ==
    IF st = "origins" THEN "roles"
    ELSE IF StageIndex(st) = Len(OktaStages) THEN "cleanup"
    ELSE OktaStages[StageIndex(st) + 1]

\* What follows a stage that returned.
NextStage(st) ==
    IF StageIndex(st) = Len(OktaStages) THEN "cleanup" ELSE OktaStages[StageIndex(st) + 1]

\* What a stage can raise: an OktaError with its error code, or another
\* exception.
StageErrors ==
    {[type |-> "OktaError", error_code |-> "E0000006"],
     [type |-> "OktaError", error_code |-> "E0000047"],
     [type |-> "ConnectionError", error_code |-> Null]}

\* The label of the nodes a resource stage loads under the organization.
StageLabel(st) ==
    CASE st = "users" -> "OktaUser"
      [] st = "groups" -> "OktaGroup"
      [] st = "applications" -> "OktaApplication"
      [] st = "factors" -> "OktaUserFactor"
      [] st = "origins" -> "OktaTrustedOrigin"
      [] OTHER -> "OktaAdministrationRole"

\* Graph Loader: merge the parent, merge the resource by its key, stamp both
\* and the edge between them with the tag.
LoadResource(g, parentLabel, parentKey, label, key, tag, now) ==
    LET n1 == MergeNode(g.nodes, parentLabel, parentKey, now)
        n2 == SetLastUpdated(n1, parentLabel, parentKey, tag)
        n3 == MergeNode(n2, label, key, now)
        n4 == SetLastUpdated(n3, label, key, tag)
        ps == Ids(Matching(n4, parentLabel, parentKey))
        rs == Ids(Matching(n4, label, key))
    IN Graph(n4, MergeEdges(g.edges, "RESOURCE", ps \X rs, tag, now))

\* organization.create_okta_organization(neo4j_session, okta_org_id, update_tag)
create_okta_organization(g, org, tag, now) ==
    Graph(SetLastUpdated(MergeNode(g.nodes, "OktaOrganization", org, now),
                         "OktaOrganization", org, tag),
          g.edges)

\* awssaml.sync_okta_aws_saml(neo4j_session, okta_saml_role_regex, update_tag):
\* it is given no organization; it maps every OktaGroup of the graph to the
\* AWS role its name denotes.
RECURSIVE sync_okta_aws_saml(_, _, _, _)
sync_okta_aws_saml(g, groups, tag, now) ==
    IF groups = {} THEN g
    ELSE LET grp == CHOOSE x \in groups : TRUE
             n1 == MergeNode(g.nodes, "AWSRole", grp.key, now)
             n2 == SetLastUpdated(n1, "AWSRole", grp.key, tag)
             rs == Ids(Matching(n2, "AWSRole", grp.key))
             g1 == Graph(n2, MergeEdges(g.edges, "ALLOWED_BY", {grp.id} \X rs, tag, now))
         IN sync_okta_aws_saml(g1, groups \ {grp}, tag, now)

\* One stage of the ingestion that returns: what it writes. observed tells
\* whether the provider lists a record for the stage.
RunStage(g, st, org, tag, now, observed) ==
    IF st = "organization" THEN create_okta_organization(g, org, tag, now)
    ELSE IF st = "awssaml"
    THEN sync_okta_aws_saml(g, {n \in g.nodes : n.label = "OktaGroup"}, tag, now)
    ELSE IF observed
    THEN LoadResource(g, "OktaOrganization", org, StageLabel(st), org \o "/" \o st, tag, now)
    ELSE g

\* The records of the users stage come and go at the provider; the other
\* stages always find their record.
Observations(st) == IF st = "users" THEN BOOLEAN ELSE {TRUE}

\* ------------------------------------ okta/__init__.py: start_okta_ingestion
\* Job parameters that name one fixed organization instead of the configured one.
OktaCommonJobParameters_FixedOrg(config) ==
    [UPDATE_TAG |-> config.update_tag, OKTA_ORG_ID |-> "o1"]

\* common_job_parameters of start_okta_ingestion
OktaCommonJobParameters(config) ==
    [UPDATE_TAG |-> config.update_tag, OKTA_ORG_ID |-> config.okta_org_id]

\* A roles stage handed a tag of its own instead of config.update_tag.
StageTag_RolesOwnTag(config, st) ==
    IF st = "roles" THEN config.update_tag + 1 ELSE config.update_tag

\* The tag start_okta_ingestion hands to a stage.
StageTag(config, st) == config.update_tag

\* Whether start_okta_ingestion catches what a stage raised: only the roles
\* stage is in a try block, and its except clause names OktaError.
Caught(st, exc) == st = "roles" /\ exc.type = "OktaError"

\* _cleanup_okta_organizations
cleanup_okta_organizations(g, common_job_parameters) ==
    run_cleanup_job("okta_import_cleanup.json", g, common_job_parameters)

\* The Okta orchestrator is started with a configuration whose update_tag is
\* the time the run starts. Without an API key it returns at once.
StartOkta(r, org, key) ==
    /\ Stopped(r)
    /\ clock <= MaxTag
    /\ clock' = clock + 1
    /\ LET config == [okta_api_key |-> key, okta_org_id |-> org, update_tag |-> clock]
       IN run' = [run EXCEPT ![r] =
                    IF NoCredentials(config)
                    THEN [IdleRun EXCEPT !.kind = "okta", !.pc = "returned", !.scope = org,
                                         !.api_key = key, !.tag = clock]
                    ELSE [IdleRun EXCEPT !.kind = "okta", !.pc = "organization",
                                         !.scope = org, !.api_key = key, !.tag = clock,
                                         !.cjp = OktaCommonJobParameters(config)]]
    /\ hist' = StartHist(r, org)
    /\ UNCHANGED <<nodes, edges, upstream, policy>>

OktaConfig(r) ==
    [okta_api_key |-> run[r].api_key, okta_org_id |-> run[r].scope, update_tag |-> run[r].tag]

AtStage(r) ==
    /\ run[r].kind = "okta"
    /\ \E i \in 1..Len(OktaStages) : OktaStages[i] = run[r].pc

\* The current stage returns.
StageReturns(r) ==
    /\ AtStage(r)
    /\ \E observed \in Observations(run[r].pc) :
         \E g \in {RunStage(Graph(nodes, edges), run[r].pc, run[r].scope,
                              StageTag(OktaConfig(r), run[r].pc), clock, observed)} :
            /\ nodes' = g.nodes
            /\ edges' = g.edges
            /\ run' = [run EXCEPT ![r].pc = NextStage(run[r].pc)]
            /\ hist' = [hist EXCEPT ![r] =
                          [AfterWrite(@, Graph(nodes, edges), g)
                              EXCEPT !.attempted = Append(@, run[r].pc)]]
    /\ UNCHANGED <<clock, upstream, policy>>

\* The current stage raises: the exception is caught and the ingestion goes
\* on, or it leaves start_okta_ingestion.
StageRaises(r) ==
    /\ AtStage(r)
    /\ \E exc \in StageErrors :
         /\ run' = [run EXCEPT ![r].pc = IF Caught(run[r].pc, exc)
                                         THEN NextStage(run[r].pc) ELSE "raised",
                               ![r].error = exc.type \o ":" \o exc.error_code]
         /\ hist' = [hist EXCEPT ![r].attempted = Append(@, run[r].pc),
                                 ![r].failed = run[r].pc]
    /\ UNCHANGED <<nodes, edges, clock, upstream, policy>>

\* _cleanup_okta_organizations(neo4j_session, common_job_parameters)
CleanupOkta(r) ==
    /\ run[r].kind = "okta" /\ run[r].pc = "cleanup"
    /\ \E g \in {Graph(nodes, edges)} :
       \E g2 \in {cleanup_okta_organizations(g, run[r].cjp)} :
          /\ nodes' = g2.nodes
          /\ edges' = g2.edges
          /\ hist' = [hist EXCEPT ![r] = AfterCleanup(r, @, g, g2, run[r].cjp)]
    /\ run' = [run EXCEPT ![r].pc = "done"]
    /\ UNCHANGED <<clock, upstream, policy>>

start_okta_ingestion(r) ==
    \/ StageReturns(r)
    \/ StageRaises(r)
    \/ CleanupOkta(r)

\* ----------------------------------------------------------- specifications
\* One process syncing the GCP projects, one after the other.
NextGcp ==
    \/ Environment
    \/ \E p \in Projects : StartGcp(1, p)
    \/ sync_gcp_buckets(1)

\* One process syncing the Okta organizations, one after the other.
NextOkta ==
    \/ \E org \in Orgs, key \in ApiKeys : StartOkta(1, org, key)
    \/ start_okta_ingestion(1)

\* One orchestrator process: it runs one sync at a time, of either integration.
Next ==
    \/ NextGcp
    \/ NextOkta

Spec == Init /\ [][Next]_vars

\* A started run goes on until it returns or raises.
FairSpec == Spec /\ WF_vars(sync_gcp_buckets(1) \/ start_okta_ingestion(1))

\* The loader called a second time after a load.
NextReload ==
    \/ NextGcp
    \/ ReloadGcpBuckets(1)

SpecReload == Init /\ [][NextReload]_vars

\* The bucket adapters called on their own.
NextAdapter ==
    \/ NextGcp
    \/ \E b \in Buckets : GetBucketIamPolicy(b)

SpecAdapter == Init /\ [][NextAdapter]_vars

\* The transformer alone, on every raw response.
NextTransform == TransformGcpBuckets(1)

SpecTransform == InitTransform /\ [][NextTransform]_vars

\* Two orchestrator processes on the same graph, their steps interleaved: the
\* second one starts a sync while the first one is in the middle of one.
NextOverlap ==
    \/ Environment
    \/ \E p \in Projects : StartGcp(1, p)
    \/ \E p \in Projects : ~Stopped(1) /\ StartGcp(2, p)
    \/ \E r \in Procs : sync_gcp_buckets(r)

SpecOverlap == Init /\ [][NextOverlap]_vars

\* ------------------------------------------------------------------ claims
\* The labels a sync's cleanup job is meant to prune.
TargetLabels(kind) == IF kind = "gcp" THEN {"GCPBucket"} ELSE OktaResourceLabels

\* The organization an Okta record was loaded for: its key starts with it.
OrgOfKey(key) ==
    CHOOSE o \in Orgs : \E i \in 1..Len(OktaStages) : key = o \o "/" \o OktaStages[i]

\* The parent (project or organization) a node belongs to.
ScopeOf(n) ==
    IF n.label = "GCPBucket" THEN n.props.project_number
    ELSE IF n.label \in {"GCPProject", "OktaOrganization"} THEN n.key
    ELSE OrgOfKey(n.key)

\* The nodes of the target type under a scope, and the edges that attach them
\* to their parent.
ScopedNodes(g, kind, scope) ==
    {n \in g.nodes : n.label \in TargetLabels(kind) /\ ScopeOf(n) = scope}

ScopedEdges(g, kind, scope) ==
    {e \in g.edges : e.type = "RESOURCE" /\ e.dst \in Ids(ScopedNodes(g, kind, scope))}

Finished(r) == run[r].pc = "done"

\* C1. Cleanup correctness: once a run's cleanup job has run with the run's
\* tag T and scope, the graph is the graph the job found minus exactly the
\* in-scope nodes and edges of the target type whose lastupdated is not T
\* (and the edges attached to a removed node); every in-scope node and edge
\* stamped T is still there.
C1_CleanupCorrect ==
    \A r \in Procs :
        Finished(r) =>
            LET g0 == hist[r].before
                staleN == {n \in ScopedNodes(g0, run[r].kind, run[r].scope) :
                              n.lastupdated # run[r].tag}
                staleE == {e \in ScopedEdges(g0, run[r].kind, run[r].scope) :
                              e.lastupdated # run[r].tag}
            IN /\ nodes = g0.nodes \ staleN
               /\ edges = {e \in g0.edges \ staleE :
                              e.src \notin Ids(staleN) /\ e.dst \notin Ids(staleN)}

\* A cleanup has removed a stale in-scope node and kept an in-scope node
\* stamped with the current tag.
C1_Witness ==
    \E r \in Procs :
        /\ Finished(r)
        /\ \E n \in ScopedNodes(hist[r].before, run[r].kind, run[r].scope) :
              n.lastupdated # run[r].tag /\ n \notin nodes
        /\ \E n \in ScopedNodes(Graph(nodes, edges), run[r].kind, run[r].scope) :
              n.lastupdated = run[r].tag

\* C2. Cleanup scoping: a cleanup job run for one scope removes no node that
\* belongs to another project or organization and no edge that ends at such
\* a node, whatever their lastupdated.
C2_CleanupScoped ==
    \A r \in Procs :
        Finished(r) =>
            /\ \A n \in hist[r].before.nodes : ScopeOf(n) # run[r].scope => n \in nodes
            /\ \A e \in hist[r].before.edges :
                  (\E n \in hist[r].before.nodes : n.id = e.dst /\ ScopeOf(n) # run[r].scope)
                      => e \in edges

\* A cleanup has left in place a node of the target type of another scope
\* whose lastupdated is not the current tag.
C2_Witness ==
    \E r \in Procs :
        /\ Finished(r)
        /\ \E n \in nodes :
              /\ n.label \in TargetLabels(run[r].kind)
              /\ ScopeOf(n) # run[r].scope
              /\ n.lastupdated # run[r].tag
              /\ n \in hist[r].before.nodes

\* The buckets a fetch returned.
FetchedIds(res) ==
    LET items == Get(res, "items", <<>>) IN {items[i].id : i \in 1..Len(items)}

\* The fetch of run r succeeded: the API answered (the answer has a kind).
FetchSucceeded(r) == "kind" \in DOMAIN run[r].storage_res

\* C3. End-to-end mirroring: after a complete sync_gcp_buckets run with tag
\* T whose fetch succeeded, the bucket nodes of the project are exactly the
\* fetched buckets, one node each, stamped T, each with an edge stamped T
\* from the project node; what an earlier run loaded and this fetch did not
\* return is gone, with its edge.
C3_Mirror ==
    \A r \in Procs :
        (run[r].kind = "gcp" /\ Finished(r) /\ FetchSucceeded(r)) =>
            LET mine == ScopedNodes(Graph(nodes, edges), "gcp", run[r].scope)
                fetched == FetchedIds(run[r].storage_res)
            IN /\ {n.key : n \in mine} = fetched
               /\ Cardinality(mine) = Cardinality(fetched)
               /\ \A n \in mine :
                     /\ n.lastupdated = run[r].tag
                     /\ \E e \in edges, p \in nodes :
                           /\ p.label = "GCPProject" /\ p.key = run[r].scope
                           /\ e.type = "RESOURCE" /\ e.src = p.id /\ e.dst = n.id
                           /\ e.lastupdated = run[r].tag
               /\ \A e \in edges : e.src \in Ids(nodes) /\ e.dst \in Ids(nodes)

\* A run has refreshed one bucket and removed another that an earlier run
\* had loaded and this run's fetch did not return.
C3_Witness ==
    \E r \in Procs :
        /\ run[r].kind = "gcp" /\ Finished(r) /\ FetchSucceeded(r)
        /\ \E n \in nodes : n.label = "GCPBucket" /\ n.key = "b1" /\ n.firstseen <= run[r].tag
        /\ \E n \in hist[r].before.nodes :
              /\ n.label = "GCPBucket" /\ n.key = "b2" /\ n.lastupdated < run[r].tag
              /\ n.key \notin FetchedIds(run[r].storage_res)
        /\ ~ \E n \in nodes : n.key = "b2"

\* The node a bucket record was merged into.
BucketNodes(ns, id) == Matching(ns, "GCPBucket", id)

\* C4. Load idempotence: load_gcp_buckets invoked a second time, later, with
\* the same records and the same tag T leaves the graph the first
\* invocation produced: the same nodes and edges (none added, firstseen as
\* it was), one node per key and one edge per (source, target, type), and
\* every loaded bucket and its edge stamped T.
C4_LoadIdempotent ==
    \A r \in Procs :
        (run[r].kind = "gcp" /\ run[r].pc = "cleanup" /\ hist[r].reloads > 0) =>
            /\ Graph(nodes, edges) = hist[r].loaded
            /\ \A n \in nodes, m \in nodes : (n.label = m.label /\ n.key = m.key) => n = m
            /\ \A e \in edges, f \in edges :
                  (e.type = f.type /\ e.src = f.src /\ e.dst = f.dst) => e = f
            /\ \A i \in 1..Len(run[r].bucket_list) :
                  \E n \in BucketNodes(nodes, run[r].bucket_list[i].id) :
                     /\ n.lastupdated = run[r].tag
                     /\ \E e \in edges : e.dst = n.id /\ e.lastupdated = run[r].tag

\* Two records have been loaded twice, the second time after their nodes
\* were first seen.
C4_Witness ==
    \E r \in Procs :
        /\ run[r].kind = "gcp" /\ run[r].pc = "cleanup" /\ hist[r].reloads > 0
        /\ Len(run[r].bucket_list) = 2
        /\ \A i \in 1..2 : \E n \in BucketNodes(nodes, run[r].bucket_list[i].id) :
              n.firstseen < clock

\* A step of load_gcp_buckets' loop by process r.
LoadStep(r) ==
    /\ run[r].kind = "gcp" /\ run[r].pc = "load"
    /\ run'[r].i = run[r].i + 1

\* C5. Monotonic replacement: no step changes the firstseen (or the identity)
\* of a node or edge that it leaves in the graph; a load of a record whose
\* key exists, with a new tag, leaves exactly one node for the key, the one
\* that existed, with the record's fields and lastupdated equal to the tag.
C5_MonotonicReplacement ==
    [][/\ \A n \in nodes : \A m \in nodes' :
             (m.label = n.label /\ m.key = n.key) =>
                 (m.id = n.id /\ m.firstseen = n.firstseen)
       /\ \A e \in edges : \A f \in edges' :
             (f.type = e.type /\ f.src = e.src /\ f.dst = e.dst) =>
                 (f.id = e.id /\ f.firstseen = e.firstseen)
       /\ \A r \in Procs :
             LoadStep(r) =>
                 LET b == run[r].bucket_list[run[r].i]
                 IN /\ Cardinality(BucketNodes(nodes', b.id)) = 1
                    /\ \A m \in BucketNodes(nodes', b.id) :
                          /\ m.lastupdated = run[r].tag
                          /\ m.props.storage_class = b.storage_class
                          /\ m.props.labels = b.labels
                          /\ m.props.versioning_enabled = b.versioning_enabled
                          /\ m.props.project_number = b.project_number
                          /\ m.props.bucket_id = b.id
      ]_vars

\* A bucket node created by an earlier run carries the tag and the fields of
\* the run now loading: it was first seen before this run started, and its
\* storage class is the one this run fetched.
C5_Witness ==
    \E r \in Procs :
        /\ run[r].kind = "gcp" /\ run[r].pc \in {"load", "cleanup"} /\ run[r].i > 1
        /\ \E n \in BucketNodes(nodes, "b1") :
              /\ n.firstseen <= run[r].tag
              /\ n.lastupdated = run[r].tag
              /\ run[r].bucket_list[1].id = "b1"
              /\ n.props.storage_class = "STANDARD"

AllStages(kind) ==
    IF kind = "gcp" THEN <<"get", "transform", "load", "cleanup">>
    ELSE OktaStages \o <<"cleanup">>

Last(sq) == sq[Len(sq)]

IsPrefix(sq, full) == Len(sq) <= Len(full) /\ \A i \in 1..Len(sq) : sq[i] = full[i]

\* C7. Orchestrator failure policy, as claimed: of the failures of a stage
\* of start_okta_ingestion only the roles stage's OktaError E0000006 is
\* caught, and the run goes on to the cleanup; after any other failure the
\* exception has left the orchestrator, the failed stage is the last one
\* attempted, no cleanup has run, and what the completed stages wrote is
\* still in the graph.
C7_FailurePolicy ==
    \A r \in Procs :
        (run[r].kind = "okta" /\ hist[r].failed # "none") =>
            IF hist[r].failed = "roles" /\ run[r].error = "OktaError:E0000006"
            THEN run[r].pc \in {"cleanup", "done"}
            ELSE /\ run[r].pc = "raised"
                 /\ Last(hist[r].attempted) = hist[r].failed
                 /\ hist[r].cleanups = 0
                 /\ hist[r].written.nodes \subseteq NodeKeys(nodes)

C9_SingleTag ==
    \A r \in Procs :
        run[r].kind # "none" =>
            /\ hist[r].writeTags \subseteq {run[r].tag}
            /\ hist[r].cleanupTags \subseteq {run[r].tag}
            /\ "UPDATE_TAG" \in DOMAIN run[r].cjp => run[r].cjp.UPDATE_TAG = run[r].tag

\* An Okta run has written with its tag in every stage and cleaned up with it.
C9_Witness ==
    \E r \in Procs :
        /\ run[r].kind = "okta" /\ Finished(r)
        /\ hist[r].failed = "none"
        /\ hist[r].writeTags = {run[r].tag}
        /\ hist[r].cleanupTags = {run[r].tag}
        /\ \A n \in ScopedNodes(Graph(nodes, edges), "okta", run[r].scope) :
              n.lastupdated = run[r].tag

\* C10. Overlapping syncs: the cleanup of a run that was the only one in
\* flight on its scope from start to end removes nothing the run wrote.
\* (That a cleanup removes what a concurrent run on the same scope has just
\* written is the state C10_Witness describes.)
C10_OwnRecordsSurvive ==
    \A r \in Procs :
        (hist[r].cleanups > 0 /\ ~hist[r].overlapped) => hist[r].lostOwn = NoKeys

\* The cleanup of one run has removed a bucket that a concurrent run on the
\* same project had stamped with its own tag and that still exists upstream.
C10_Witness ==
    \E r \in Procs :
        /\ hist[r].overlapped
        /\ hist[r].clobbered # {}
        /\ \A k \in hist[r].clobbered : k[2] \in upstream /\ k \notin NodeKeys(nodes)

\* The step is the cleanup job of run r.
CleanupStep(r) == run[r].pc = "cleanup" /\ run'[r].pc = "done"

\* C11. Deletion only by cleanup: a step that removes a node or an edge is
\* the cleanup job of a run, the nodes it removes have a lastupdated that is
\* not that run's tag, and what the run itself wrote is still in the graph
\* after it; the fetch, transform and load steps remove nothing.
C11_DeletionOnlyByCleanup ==
    [][LET goneN == {n \in nodes : n.id \notin Ids(nodes')}
           goneE == {e \in edges : e.id \notin Ids(edges')}
       IN /\ (goneN # {} \/ goneE # {}) =>
                \E r \in Procs :
                    /\ CleanupStep(r)
                    /\ \A n \in goneN : n.lastupdated # run[r].tag
          /\ \A r \in Procs :
                CleanupStep(r) => hist[r].written.nodes \subseteq NodeKeys(nodes')]_vars

\* A cleanup has removed a bucket node stamped by an earlier run and kept the
\* bucket the run had loaded.
C11_Witness ==
    \E r \in Procs :
        /\ run[r].kind = "gcp" /\ Finished(r)
        /\ \E n \in hist[r].before.nodes :
              /\ n.label = "GCPBucket" /\ n.lastupdated # run[r].tag
              /\ <<n.label, n.key>> \notin NodeKeys(nodes)
        /\ \E n \in nodes : n.label = "GCPBucket" /\ n.lastupdated = run[r].tag
                            /\ <<n.label, n.key>> \in hist[r].written.nodes

\* The fields of a transformed record and where each comes from: a field of
\* the raw item, or a field of one of its optional objects (for
\* iam_config_bucket_policy_only, of an object inside an object).
FlatFields ==
    {<<"etag", "etag">>, <<"kind", "kind">>, <<"location", "location">>,
     <<"location_type", "locationType">>, <<"meta_generation", "metageneration">>,
     <<"self_link", "selfLink">>, <<"storage_class", "storageClass">>,
     <<"time_created", "timeCreated">>, <<"updated", "updated">>,
     <<"default_event_based_hold", "defaultEventBasedHold">>}

NestedFields ==
    {<<"owner_entity", "owner", "entity">>, <<"owner_entity_id", "owner", "entityId">>,
     <<"versioning_enabled", "versioning", "enabled">>,
     <<"retention_period", "retentionPolicy", "retentionPeriod">>,
     <<"default_kms_key_name", "encryption", "defaultKmsKeyName">>,
     <<"log_bucket", "logging", "logBucket">>,
     <<"requester_pays", "billing", "requesterPays">>}

RecordKeys ==
    {"id", "project_number", "labels", "iam_config_bucket_policy_only"}
    \cup {f[1] : f \in FlatFields} \cup {f[1] : f \in NestedFields}

\* The record is the raw item's: its id verbatim, every field there, the
\* raw value where the item has one and the default where it has not.
RecordOf(rec, item) ==
    /\ DOMAIN rec = RecordKeys
    /\ rec.id = item.id
    /\ rec.project_number = item.projectNumber
    /\ \A f \in FlatFields :
          rec[f[1]] = IF f[2] \in DOMAIN item THEN item[f[2]] ELSE Null
    /\ \A f \in NestedFields :
          rec[f[1]] = IF f[2] \in DOMAIN item /\ f[3] \in DOMAIN item[f[2]]
                      THEN item[f[2]][f[3]] ELSE Null
    /\ rec.iam_config_bucket_policy_only =
          IF /\ "iamConfiguration" \in DOMAIN item
             /\ "bucketPolicyOnly" \in DOMAIN item.iamConfiguration
             /\ "enabled" \in DOMAIN item.iamConfiguration.bucketPolicyOnly
          THEN item.iamConfiguration.bucketPolicyOnly.enabled ELSE Null
    /\ IF "labels" \in DOMAIN item
       THEN /\ Len(rec.labels) = Cardinality(DOMAIN item.labels)
            /\ \A k \in DOMAIN item.labels :
                  \E i \in 1..Len(rec.labels) : rec.labels[i] = <<k, item.labels[k]>>
       ELSE rec.labels = <<>>

\* C12. Transformer shape: transform_gcp_buckets returns one record per raw
\* item, in the order of the items, with the item's id verbatim and every
\* optional field the item lacks set to its default (null, the empty list
\* for labels); a response without items gives the empty list.
C12_TransformerShape ==
    \A r \in Procs :
        run[r].pc = "transformed" =>
            LET res == run[r].storage_res
                out == run[r].bucket_list
            IN IF "items" \in DOMAIN res
               THEN /\ Len(out) = Len(res.items)
                    /\ \A i \in 1..Len(out) : RecordOf(out[i], res.items[i])
               ELSE out = <<>>

\* The transformer has returned two records in the order of the items: one
\* for a bare item, all defaults, and one for an item with every field.
C12_Witness ==
    \E r \in Procs :
        /\ run[r].pc = "transformed"
        /\ Len(run[r].bucket_list) = 2
        /\ DOMAIN run[r].storage_res.items[1] = RequiredKeys
        /\ run[r].bucket_list[1].storage_class = Null
        /\ run[r].bucket_list[1].labels = <<>>
        /\ run[r].bucket_list[1].id = "b2"
        /\ run[r].bucket_list[2].id = "b1"
        /\ run[r].bucket_list[2].owner_entity_id = "00b4"

\* The listing of the run failed with an error get_gcp_buckets triages.
SoftFailed(r) == run[r].kind = "gcp" /\ hist[r].api_error \in {"invalid", "forbidden"}

\* C13. Soft-failed fetch still triggers cleanup: a sync_gcp_buckets run
\* whose listing failed with 'invalid' or 'forbidden' does not raise and
\* writes nothing; it goes on to the cleanup job, runs it once, and after it
\* no bucket node or edge of the project with a lastupdated other than the
\* run's tag is left, so every bucket the project had is gone.
C13_SoftFailCleans ==
    \A r \in Procs :
        SoftFailed(r) =>
            /\ run[r].pc \in {"cleanup", "done"}
            /\ run[r].bucket_list = <<>>
            /\ hist[r].written = NoKeys /\ hist[r].writeTags = {}
            /\ Finished(r) =>
                  LET g == Graph(nodes, edges)
                  IN /\ hist[r].cleanups = 1
                     /\ \A n \in ScopedNodes(g, "gcp", run[r].scope) :
                           n.lastupdated = run[r].tag
                     /\ \A e \in ScopedEdges(g, "gcp", run[r].scope) :
                           e.lastupdated = run[r].tag
                     /\ \A n \in ScopedNodes(hist[r].before, "gcp", run[r].scope) :
                           <<n.label, n.key>> \notin NodeKeys(nodes)

\* After a 'forbidden' listing the run has ended, and a bucket an earlier run
\* had loaded, which still exists upstream, is no longer in the graph.
C13_Witness ==
    \E r \in Procs :
        /\ SoftFailed(r) /\ Finished(r)
        /\ hist[r].api_error = "forbidden"
        /\ \E n \in ScopedNodes(hist[r].before, "gcp", run[r].scope) :
              /\ n.key \in upstream
              /\ <<n.label, n.key>> \notin NodeKeys(nodes)

\* The run has ended with an exception that left the orchestrator.
Aborted(r) == run[r].pc = "raised"

\* C14. Aborted run deletes nothing: a run that a propagating failure has
\* ended has not invoked the cleanup job, and what it wrote before the
\* failure is still in the graph (after a failed fetch it wrote nothing);
\* the failing step itself leaves the graph as it is, and no step of a run
\* before its cleanup removes a node or an edge.
C14_AbortedRunDeletesNothing ==
    /\ [](\A r \in Procs :
            Aborted(r) =>
                /\ hist[r].failed # "none"
                /\ hist[r].cleanups = 0 /\ hist[r].cleanupTags = {}
                /\ "cleanup" \notin {hist[r].attempted[i] : i \in 1..Len(hist[r].attempted)}
                /\ hist[r].written.nodes \subseteq NodeKeys(nodes)
                /\ hist[r].written.edges \subseteq EdgeKeys(Graph(nodes, edges), edges)
                /\ hist[r].failed = "get" => hist[r].written = NoKeys)
    /\ [][\A r \in Procs :
            /\ (~Aborted(r) /\ Aborted(r)') => (nodes' = nodes /\ edges' = edges)
            /\ (~Stopped(r) /\ ~CleanupStep(r)) =>
                  /\ Ids(nodes) \subseteq Ids(nodes')
                  /\ Ids(edges) \subseteq Ids(edges')]_vars

\* A sync_gcp_buckets run has ended in a failed graph write after it had
\* loaded a bucket, and the bucket is in the graph with the run's tag.
C14_Witness ==
    \E r \in Procs :
        /\ run[r].kind = "gcp" /\ Aborted(r)
        /\ hist[r].failed = "load"
        /\ \E n \in nodes : /\ n.label = "GCPBucket" /\ n.lastupdated = run[r].tag
                            /\ <<n.label, n.key>> \in hist[r].written.nodes

\* The order the claim gives: organization, users, groups, applications,
\* factors, trusted origins, AWS SAML, roles, cleanup.
ClaimedOrder ==
    <<"organization", "users", "groups", "applications", "factors", "origins",
      "awssaml", "roles", "cleanup">>

\* C15. Stage ordering in start_okta_ingestion: the stages are attempted one
\* at a time in the claimed order, each step of a run attempting the one
\* that follows the last one attempted; the cleanup job is invoked at most
\* once, only after the roles stage has returned or its failure has been
\* caught, and the run writes nothing after it.
C15_StageOrder ==
    /\ [](\A r \in Procs :
            run[r].kind = "okta" =>
                LET done == hist[r].attempted
                IN /\ Len(done) <= Len(ClaimedOrder)
                   /\ \A i \in 1..Len(done) : done[i] = ClaimedOrder[i]
                   /\ hist[r].cleanups \in {0, 1}
                   /\ hist[r].cleanups = 1 <=> Len(done) = Len(ClaimedOrder)
                   /\ hist[r].cleanups = 1 => Finished(r)
                   /\ run[r].pc = "cleanup" =>
                         /\ Len(done) = Len(ClaimedOrder) - 1
                         /\ hist[r].failed \in {"none", "roles"}
                   /\ ~Stopped(r) => run[r].pc = ClaimedOrder[Len(done) + 1])
    /\ [][\A r \in Procs :
            (run[r].kind = "okta" /\ ~Stopped(r) /\ run'[r] # run[r]) =>
                /\ hist'[r].attempted = Append(hist[r].attempted, run[r].pc)
                /\ hist[r].cleanups = 0
                /\ hist'[r].cleanups = IF run[r].pc = "cleanup" THEN 1 ELSE 0]_vars

\* A run whose roles stage failed and was caught has gone through every
\* stage in order and has run the cleanup once.
C15_Witness ==
    \E r \in Procs :
        /\ run[r].kind = "okta" /\ Finished(r)
        /\ hist[r].failed = "roles"
        /\ hist[r].attempted = ClaimedOrder
        /\ hist[r].cleanups = 1

\* C16. Missing credentials: a start_okta_ingestion run whose
\* config.okta_api_key is empty or None has returned at once; it has
\* attempted no stage and no cleanup and has written nothing, and the step
\* that starts it leaves every node and edge as it was.
C16_MissingCredentials ==
    /\ [](\A r \in Procs :
            (run[r].kind = "okta" /\ run[r].api_key \in {"", Null}) =>
                /\ run[r].pc = "returned"
                /\ hist[r].attempted = <<>>
                /\ hist[r].cleanups = 0
                /\ hist[r].written = NoKeys /\ hist[r].writeTags = {})
    /\ [][\A r \in Procs :
            (run'[r].pc = "returned" /\ run'[r] # run[r]) =>
                (nodes' = nodes /\ edges' = edges)]_vars

\* A run without an API key has returned, and the records an earlier run of
\* the same organization left with its older tag are still in the graph.
C16_Witness ==
    \E r \in Procs :
        /\ run[r].kind = "okta" /\ run[r].pc = "returned" /\ run[r].api_key = ""
        /\ \E n \in nodes : /\ n.label = "OktaUser" /\ ScopeOf(n) = run[r].scope
                            /\ n.lastupdated # run[r].tag

====
